---- MODULE Spec2Model ----
(***************************************************************************)
(* A model of searchsystem.cpp: the literal-pattern NFA builder, the NFA   *)
(* and DFA simulators, the subset construction, the approximate matcher    *)
(* and the a^n b^n pushdown recogniser.                                    *)
(*                                                                         *)
(* A char is modelled by its code (an integer), so that std::set<char>     *)
(* iterates in the order of the codes.  A std::string is a sequence of     *)
(* chars.  A std::map is a function whose DOMAIN is its set of keys, so    *)
(* that an entry created by operator[] is visible in the model.            *)
(***************************************************************************)
EXTENDS Integers, Sequences, FiniteSets, TLC

\* 'a' and 'b', the two symbols PDA::simulate compares with.
chA == 97
chB == 98

\* The symbols of the strings explored: 'a', 'b' and 'c'.
Sigma == {chA, chB, 99}

\* The longest pattern and the longest input string (test string, text)
\* explored, the largest error budget, and the longest PDA input.
MaxPat == 2
MaxIn == 3
MaxErr == 2
MaxPdaIn == 4

\* The marker PDA::simulate pushes: 'A'.
chMarker == 65

Strings(S, n) == UNION {[1..k -> S] : k \in 0..n}

Min(S) == CHOOSE x \in S : \A y \in S : x <= y

(***************************************************************************)
(* std::map                                                                *)
(***************************************************************************)
EmptyMap == <<>>

\* m.count(k)
count(m, k) == IF k \in DOMAIN m THEN 1 ELSE 0

\* The map after m[k] has been evaluated: operator[] inserts a
\* value-initialised entry when the key is missing.
subscript(m, k, dflt) == IF k \in DOMAIN m THEN m ELSE m @@ (k :> dflt)

(***************************************************************************)
(* struct NFA                                                              *)
(***************************************************************************)
\* Variant: source and target exchanged, transitions[to][symbol].insert(from).
addTransitionSwapped(nfa, from, symbol, to) ==
    LET t1 == subscript(nfa.transitions, to, EmptyMap)
        inner == subscript(t1[to], symbol, {})
    IN [nfa EXCEPT !.transitions =
            [t1 EXCEPT ![to] = [inner EXCEPT ![symbol] = @ \cup {from}]]]

addTransition(nfa, from, symbol, to) ==
    LET t1 == subscript(nfa.transitions, from, EmptyMap)
        inner == subscript(t1[from], symbol, {})
    IN [nfa EXCEPT !.transitions =
            [t1 EXCEPT ![from] = [inner EXCEPT ![symbol] = @ \cup {to}]]]

\* The body of "for (char c : input)" of NFA::simulate up to "current = next":
\* transitions[s] is evaluated for every s of current (creating the missing
\* entries), and next collects the targets on c.
NfaMove(transitions, current, c) ==
    LET t1 == [s \in (DOMAIN transitions) \cup current |->
                  subscript(transitions, s, EmptyMap)[s]]
    IN [transitions |-> t1,
        next |-> UNION {t1[s][c] : s \in {x \in current : count(t1[x], c) > 0}}]

RECURSIVE NfaSimulateFrom(_, _, _, _)
NfaSimulateFrom(nfa, current, input, k) ==
    IF k > Len(input)
    THEN [nfa |-> nfa, result |-> \E s \in current : s \in nfa.finalStates]
    ELSE LET mv == NfaMove(nfa.transitions, current, input[k])
             nfa1 == [nfa EXCEPT !.transitions = mv.transitions]
         IN IF mv.next = {}
            THEN [nfa |-> nfa1, result |-> FALSE]
            ELSE NfaSimulateFrom(nfa1, mv.next, input, k + 1)

\* Variant: a symbol outside the alphabet is skipped instead of read.
NfaSimulateSkip(nfa, input) ==
    LET known(c) == c \in nfa.alphabet
    IN NfaSimulateFrom(nfa, {nfa.startState}, SelectSeq(input, known), 1)

\* NFA::simulate: the NFA object after the call, and the value returned.
NfaSimulate(nfa, input) == NfaSimulateFrom(nfa, {nfa.startState}, input, 1)

(***************************************************************************)
(* regexToNFA                                                              *)
(***************************************************************************)
RECURSIVE regexLoop(_, _, _, _, _)
regexLoop(nfa, regex, k, last, next) ==
    IF k > Len(regex)
    THEN [nfa |-> nfa, last |-> last]
    ELSE LET c == regex[k]
             n1 == addTransition(nfa, last, c, next)
             n2 == [n1 EXCEPT !.states = @ \cup {next}, !.alphabet = @ \cup {c}]
         IN regexLoop(n2, regex, k + 1, next, next + 1)

\* Variant: "nfa.states.insert(next)" is left out of the loop.
regexToNFANoInsert(regex) ==
    LET nfa0 == [states |-> {0}, alphabet |-> {}, transitions |-> EmptyMap,
                 startState |-> 0, finalStates |-> {}]
        r == regexLoop(nfa0, regex, 1, 0, 1)
    IN [r.nfa EXCEPT !.states = {0}, !.finalStates = @ \cup {r.last}]

\* Variant: finalStates.insert(last) inside the loop too, so that every
\* state but the start state is final.
regexToNFAEveryFinal(regex) ==
    LET nfa0 == [states |-> {0}, alphabet |-> {}, transitions |-> EmptyMap,
                 startState |-> 0, finalStates |-> {}]
        r == regexLoop(nfa0, regex, 1, 0, 1)
    IN [r.nfa EXCEPT !.finalStates = @ \cup (r.nfa.states \ {0}) \cup {r.last}]

regexToNFA(regex) ==
    LET nfa0 == [states |-> {0}, alphabet |-> {}, transitions |-> EmptyMap,
                 startState |-> 0, finalStates |-> {}]
        r == regexLoop(nfa0, regex, 1, 0, 1)
    IN [r.nfa EXCEPT !.finalStates = @ \cup {r.last}]

(***************************************************************************)
(* struct DFA                                                              *)
(***************************************************************************)
RECURSIVE DfaSimulateFrom(_, _, _, _)
DfaSimulateFrom(dfa, current, input, k) ==
    IF k > Len(input)
    THEN [dfa |-> dfa, result |-> current \in dfa.finalStates]
    ELSE LET c == input[k]
             t1 == subscript(dfa.transitions, current, EmptyMap)
             dfa1 == [dfa EXCEPT !.transitions = t1]
         IN IF count(t1[current], c) = 0
            THEN [dfa |-> dfa1, result |-> FALSE]
            ELSE DfaSimulateFrom(dfa1, t1[current][c], input, k + 1)

\* Variant: a symbol outside the alphabet is skipped instead of read.
DfaSimulateSkip(dfa, input) ==
    LET known(c) == c \in dfa.alphabet
    IN DfaSimulateFrom(dfa, dfa.startState, SelectSeq(input, known), 1)

\* DFA::simulate: the DFA object after the call, and the value returned.
DfaSimulate(dfa, input) == DfaSimulateFrom(dfa, dfa.startState, input, 1)

(***************************************************************************)
(* The program state.                                                      *)
(*   regex, test   the pattern and the test string main reads              *)
(*   nfa, dfa      main's automaton objects                                *)
(*   nfaOut/dfaOut the value of the last nfa.simulate(test) and            *)
(*                 dfa.simulate(test)                                      *)
(*   pc            "main", or "loop" while nfaToDFA runs its worklist loop *)
(*   id, q, nextId, ldfa   the locals of nfaToDFA (ldfa is its local dfa)  *)
(*   nfaAtCall     the NFA as it was when nfaToDFA was last entered        *)
(*   deq           the subsets the current nfaToDFA call has dequeued      *)
(*   ret           the DFAs returned by the last two nfaToDFA calls        *)
(*   am            one approximateMatch call                               *)
(*   pda           one PDA::simulate call                                  *)
(***************************************************************************)
VARIABLES regex, test, nfa, dfa, nfaOut, dfaOut, pc, id, q, nextId, ldfa,
          nfaAtCall, deq, ret, am, pda

vars == <<regex, test, nfa, dfa, nfaOut, dfaOut, pc, id, q, nextId, ldfa,
          nfaAtCall, deq, ret, am, pda>>

NoCall == [called |-> FALSE, result |-> FALSE]

\* A default-constructed automaton (no state, no symbol, no transition).
EmptyAutomaton ==
    [states |-> {}, alphabet |-> {}, transitions |-> EmptyMap,
     startState |-> 0, finalStates |-> {}]

\* No approximateMatch call and no PDA::simulate call is under way.
AmIdle ==
    [pc |-> "idle", text |-> <<>>, pattern |-> <<>>, maxErrors |-> 0,
     dp |-> <<>>, result |-> FALSE]
PdaIdle == [pc |-> "idle", input |-> <<>>, st |-> <<>>, i |-> 0, result |-> FALSE]

(***************************************************************************)
(* nfaToDFA                                                                *)
(***************************************************************************)
\* Variant: nextId starts at 0, the id of the start subset.
ConvLocalsZero(n) ==
    [id |-> ({n.startState} :> 0),
     q |-> <<{n.startState}>>,
     nextId |-> 0,
     dfa |-> [EmptyAutomaton EXCEPT !.alphabet = n.alphabet, !.startState = 0]]

\* Variant: the subset-to-id map is static, it keeps the entries of the
\* call before.
ConvLocalsStatic(n) ==
    [id |-> ({n.startState} :> 0) @@ id,
     q |-> <<{n.startState}>>,
     nextId |-> 1,
     dfa |-> [EmptyAutomaton EXCEPT !.alphabet = n.alphabet, !.startState = 0]]

\* The locals of nfaToDFA when its loop is first reached.
ConvLocals(n) ==
    [id |-> ({n.startState} :> 0),
     q |-> <<{n.startState}>>,
     nextId |-> 1,
     dfa |-> [EmptyAutomaton EXCEPT !.alphabet = n.alphabet, !.startState = 0]]

\* "for (int s : cur) if (nfa.transitions[s].count(c)) next.insert(...)":
\* nfa.transitions[s] is evaluated for every s of cur.
SubsetMove(transitions, cur, c) ==
    LET t1 == [s \in (DOMAIN transitions) \cup cur |->
                  subscript(transitions, s, EmptyMap)[s]]
    IN [transitions |-> t1,
        next |-> UNION {t1[s][c] : s \in {x \in cur : count(t1[x], c) > 0}}]

\* dfa.transitions[cid][c] = to
setTransition(transitions, cid, c, to) ==
    LET t1 == subscript(transitions, cid, EmptyMap)
        inner == subscript(t1[cid], c, 0)
    IN [t1 EXCEPT ![cid] = [inner EXCEPT ![c] = to]]

\* Variant: no "if (!id.count(next))": every discovery of a subset gives
\* it a new id and enqueues it.
RECURSIVE ForSymbolsNoMemo(_, _, _, _)
ForSymbolsNoMemo(st, cur, cid, syms) ==
    IF syms = {}
    THEN st
    ELSE LET c == Min(syms)
             mv == SubsetMove(st.nfa.transitions, cur, c)
             st1 == [st EXCEPT !.nfa.transitions = mv.transitions]
         IN IF mv.next = {}
            THEN ForSymbolsNoMemo(st1, cur, cid, syms \ {c})
            ELSE LET id0 == subscript(st1.id, mv.next, 0)
                     id1 == [id0 EXCEPT ![mv.next] = st1.nextId]
                     st2 == [st1 EXCEPT
                               !.id = id1,
                               !.nextId = @ + 1,
                               !.q = Append(@, mv.next),
                               !.dfa.transitions =
                                   setTransition(@, cid, c, id1[mv.next])]
                 IN ForSymbolsNoMemo(st2, cur, cid, syms \ {c})

\* "for (char c : dfa.alphabet)" for the symbols syms still to visit, in
\* increasing order.  st holds nfa and the locals id, q, nextId, dfa.
RECURSIVE ForSymbols(_, _, _, _)
ForSymbols(st, cur, cid, syms) ==
    IF syms = {}
    THEN st
    ELSE LET c == Min(syms)
             mv == SubsetMove(st.nfa.transitions, cur, c)
             st1 == [st EXCEPT !.nfa.transitions = mv.transitions]
         IN IF mv.next = {}
            THEN ForSymbols(st1, cur, cid, syms \ {c})
            ELSE LET fresh == count(st1.id, mv.next) = 0
                     id1 == IF fresh THEN st1.id @@ (mv.next :> st1.nextId)
                                     ELSE st1.id
                     st2 == [st1 EXCEPT
                               !.id = id1,
                               !.nextId = IF fresh THEN @ + 1 ELSE @,
                               !.q = IF fresh THEN Append(@, mv.next) ELSE @,
                               !.dfa.transitions =
                                   setTransition(@, cid, c, id1[mv.next])]
                 IN ForSymbols(st2, cur, cid, syms \ {c})

\* Variant: a subset is final when all its NFA states are final.
WhileBodyAllFinal(st) ==
    LET cur == Head(st.q)
        id0 == subscript(st.id, cur, 0)
        cid == id0[cur]
        st0 == [st EXCEPT !.q = Tail(@), !.id = id0, !.dfa.states = @ \cup {cid}]
        st1 == ForSymbols(st0, cur, cid, st0.dfa.alphabet)
    IN IF \A s \in cur : s \in st1.nfa.finalStates
       THEN [st1 EXCEPT !.dfa.finalStates = @ \cup {cid}]
       ELSE st1

\* One iteration of "while (!q.empty())".
WhileBody(st) ==
    LET cur == Head(st.q)
        id0 == subscript(st.id, cur, 0)
        cid == id0[cur]
        st0 == [st EXCEPT !.q = Tail(@), !.id = id0, !.dfa.states = @ \cup {cid}]
        st1 == ForSymbols(st0, cur, cid, st0.dfa.alphabet)
    IN IF \E s \in cur : s \in st1.nfa.finalStates
       THEN [st1 EXCEPT !.dfa.finalStates = @ \cup {cid}]
       ELSE st1

(***************************************************************************)
(* The actions.                                                            *)
(***************************************************************************)
Patterns == Strings(Sigma, MaxPat)
Inputs == Strings(Sigma, MaxIn)

\* main after "NFA nfa = regexToNFA(regex)", for a pattern and a test string
\* that main reads.
Init ==
    /\ regex \in Patterns
    /\ nfa = regexToNFA(regex)
    /\ test \in Inputs
    /\ dfa = EmptyAutomaton
    /\ nfaOut = NoCall
    /\ dfaOut = NoCall
    /\ pc = "main"
    /\ id = EmptyMap
    /\ q = <<>>
    /\ nextId = 0
    /\ ldfa = EmptyAutomaton
    /\ nfaAtCall = nfa
    /\ deq = <<>>
    /\ ret = <<>>
    /\ am = AmIdle
    /\ pda = PdaIdle

\* nfa.simulate(test)
CallNfaSimulate ==
    /\ pc = "main"
    /\ LET r == NfaSimulate(nfa, test)
       IN /\ nfa' = r.nfa
          /\ nfaOut' = [called |-> TRUE, result |-> r.result]
    /\ UNCHANGED <<regex, test, dfa, dfaOut, pc, id, q, nextId, ldfa, nfaAtCall, deq, ret, am, pda>>

\* dfa.simulate(test), once main holds a DFA
CallDfaSimulate ==
    /\ pc = "main"
    /\ ret # <<>>
    /\ LET r == DfaSimulate(dfa, test)
       IN /\ dfa' = r.dfa
          /\ dfaOut' = [called |-> TRUE, result |-> r.result]
    /\ UNCHANGED <<regex, test, nfa, nfaOut, pc, id, q, nextId, ldfa, nfaAtCall, deq, ret, am, pda>>

\* nfaToDFA(nfa) is entered and runs up to its loop.
ConvBegin ==
    /\ pc = "main"
    /\ LET l == ConvLocals(nfa)
       IN /\ id' = l.id
          /\ q' = l.q
          /\ nextId' = l.nextId
          /\ ldfa' = l.dfa
    /\ nfaAtCall' = nfa
    /\ deq' = <<>>
    /\ pc' = "loop"
    /\ UNCHANGED <<regex, test, nfa, dfa, nfaOut, dfaOut, ret, am, pda>>

\* One iteration of the worklist loop.
ConvStep ==
    /\ pc = "loop"
    /\ q # <<>>
    /\ LET st == WhileBody([nfa |-> nfa, id |-> id, q |-> q,
                            nextId |-> nextId, dfa |-> ldfa])
       IN /\ nfa' = st.nfa
          /\ id' = st.id
          /\ q' = st.q
          /\ nextId' = st.nextId
          /\ ldfa' = st.dfa
    /\ deq' = Append(deq, Head(q))
    /\ UNCHANGED <<regex, test, dfa, nfaOut, dfaOut, pc, nfaAtCall, ret, am, pda>>

\* The loop ends and "DFA dfa = nfaToDFA(nfa)" receives the result.
ConvReturn ==
    /\ pc = "loop"
    /\ q = <<>>
    /\ dfa' = ldfa
    /\ ret' = IF Len(ret) = 2 THEN <<ret[2], ldfa>> ELSE Append(ret, ldfa)
    /\ dfaOut' = NoCall
    /\ pc' = "main"
    /\ UNCHANGED <<regex, test, nfa, nfaOut, id, q, nextId, ldfa, nfaAtCall, deq, am, pda>>

Next ==
    \/ CallNfaSimulate
    \/ CallDfaSimulate
    \/ ConvBegin
    \/ ConvStep
    \/ ConvReturn

Spec == Init /\ [][Next]_vars

(***************************************************************************)
(* nfaToDFA on any NFA: an NFA over states 0..k of GenStates, built with   *)
(* addTransition (cycles and several targets per symbol included), and     *)
(* then converted.                                                         *)
(***************************************************************************)
GenStates == 0..2
GenSigma == {chA, chB}

\* The most transitions an NFA explored has.
MaxTrans == 3

\* The transitions of an NFA, as (source, symbol, target) triples.
Triples(n) ==
    UNION {UNION {{<<s, c, t>> : t \in n.transitions[s][c]} :
                     c \in DOMAIN n.transitions[s]} :
              s \in DOMAIN n.transitions}

\* An NFA with its states, start state and final states, and no
\* transition yet.
GenInit ==
    /\ \E k \in GenStates : \E F \in SUBSET (0..k) :
          nfa = [states |-> 0..k, alphabet |-> {}, transitions |-> EmptyMap,
                 startState |-> 0, finalStates |-> F]
    /\ regex = <<>>
    /\ test = <<>>
    /\ dfa = EmptyAutomaton
    /\ nfaOut = NoCall
    /\ dfaOut = NoCall
    /\ pc = "main"
    /\ id = EmptyMap
    /\ q = <<>>
    /\ nextId = 0
    /\ ldfa = EmptyAutomaton
    /\ nfaAtCall = nfa
    /\ deq = <<>>
    /\ ret = <<>>
    /\ am = AmIdle
    /\ pda = PdaIdle

\* nfa.addTransition(from, c, to); nfa.alphabet.insert(c); before the NFA
\* is first converted.
GenAddTransition ==
    /\ pc = "main"
    /\ ret = <<>>
    /\ Cardinality(Triples(nfa)) < MaxTrans
    /\ \E from \in nfa.states, c \in GenSigma, to \in nfa.states :
          /\ <<from, c, to>> \notin Triples(nfa)
          /\ nfa' = [addTransition(nfa, from, c, to) EXCEPT !.alphabet = @ \cup {c}]
    /\ UNCHANGED <<regex, test, dfa, nfaOut, dfaOut, pc, id, q, nextId, ldfa,
                   nfaAtCall, deq, ret, am, pda>>

GenNext ==
    \/ GenAddTransition
    \/ ConvBegin
    \/ ConvStep
    \/ ConvReturn

GenSpec == GenInit /\ [][GenNext]_vars

(***************************************************************************)
(* approximateMatch                                                        *)
(***************************************************************************)
\* Variant: the deletion term dp[i-1][j] is left out of the minimum.
RECURSIVE FillRowNoDeletion(_, _, _, _, _)
FillRowNoDeletion(row, prev, tc, pattern, j) ==
    IF j > Len(pattern)
    THEN row
    ELSE LET v == IF tc = pattern[j]
                  THEN prev[j - 1]
                  ELSE 1 + Min({row[j - 1], prev[j - 1]})
         IN FillRowNoDeletion([row EXCEPT ![j] = v], prev, tc, pattern, j + 1)

\* "for (int j = 1; j <= m; j++)" of row i, from column j on: row is dp[i]
\* so far, prev is dp[i-1], tc is text[i-1].
RECURSIVE FillRow(_, _, _, _, _)
FillRow(row, prev, tc, pattern, j) ==
    IF j > Len(pattern)
    THEN row
    ELSE LET v == IF tc = pattern[j]
                  THEN prev[j - 1]
                  ELSE 1 + Min({prev[j], row[j - 1], prev[j - 1]})
         IN FillRow([row EXCEPT ![j] = v], prev, tc, pattern, j + 1)

\* "for (int i = 1; i <= n; i++)" from row i on.
RECURSIVE FillRows(_, _, _, _)
FillRows(dp, text, pattern, i) ==
    IF i > Len(text)
    THEN dp
    ELSE LET row0 == [dp[i] EXCEPT ![0] = 0]
             row == FillRow(row0, dp[i - 1], text[i], pattern, 1)
         IN FillRows([dp EXCEPT ![i] = row], text, pattern, i + 1)

\* The table when the two filling loops are over.
FillTable(text, pattern) ==
    LET n == Len(text)
        m == Len(pattern)
        zero == [i \in 0..n |-> [j \in 0..m |-> 0]]
        dp0 == [zero EXCEPT ![0] = [j \in 0..m |-> j]]
    IN FillRows(dp0, text, pattern, 1)

\* Variant: the final loop starts at row 0, "for (int i = 0; i <= n; i++)".
ScanTableAllRows(dp, n, m, maxErrors) == \E i \in 0..n : dp[i][m] <= maxErrors

\* Variant: the comparison is strict, dp[i][m] < maxErrors.
ScanTableStrict(dp, n, m, maxErrors) == \E i \in m..n : dp[i][m] < maxErrors

\* "for (int i = m; i <= n; i++) if (dp[i][m] <= maxErrors) return true;"
ScanTable(dp, n, m, maxErrors) == \E i \in m..n : dp[i][m] <= maxErrors

AmInit ==
    /\ \E t \in Inputs, p \in Patterns, k \in -1..MaxErr :
          am = [AmIdle EXCEPT !.pc = "fill", !.text = t, !.pattern = p,
                              !.maxErrors = k]
    /\ regex = <<>>
    /\ nfa = regexToNFA(regex)
    /\ test = <<>>
    /\ dfa = EmptyAutomaton
    /\ nfaOut = NoCall
    /\ dfaOut = NoCall
    /\ pc = "main"
    /\ id = EmptyMap
    /\ q = <<>>
    /\ nextId = 0
    /\ ldfa = EmptyAutomaton
    /\ nfaAtCall = nfa
    /\ deq = <<>>
    /\ ret = <<>>
    /\ pda = PdaIdle

\* approximateMatch up to the end of the filling loops.
AmFill ==
    /\ am.pc = "fill"
    /\ am' = [am EXCEPT !.pc = "scan", !.dp = FillTable(am.text, am.pattern)]
    /\ UNCHANGED <<regex, test, nfa, dfa, nfaOut, dfaOut, pc, id, q, nextId,
                   ldfa, nfaAtCall, deq, ret, pda>>

\* The final loop of approximateMatch and its return.
AmScan ==
    /\ am.pc = "scan"
    /\ am' = [am EXCEPT !.pc = "done",
                        !.result = ScanTable(am.dp, Len(am.text),
                                             Len(am.pattern), am.maxErrors)]
    /\ UNCHANGED <<regex, test, nfa, dfa, nfaOut, dfaOut, pc, id, q, nextId,
                   ldfa, nfaAtCall, deq, ret, pda>>

AmNext == AmFill \/ AmScan

AmSpec == AmInit /\ [][AmNext]_vars

(***************************************************************************)
(* PDA::simulate                                                           *)
(***************************************************************************)
PdaInputs == Strings(Sigma, MaxPdaIn)

PdaInit ==
    /\ \E s \in PdaInputs : pda = [PdaIdle EXCEPT !.pc = "push", !.input = s]
    /\ regex = <<>>
    /\ nfa = regexToNFA(regex)
    /\ test = <<>>
    /\ dfa = EmptyAutomaton
    /\ nfaOut = NoCall
    /\ dfaOut = NoCall
    /\ pc = "main"
    /\ id = EmptyMap
    /\ q = <<>>
    /\ nextId = 0
    /\ ldfa = EmptyAutomaton
    /\ nfaAtCall = nfa
    /\ deq = <<>>
    /\ ret = <<>>
    /\ am = AmIdle

PdaOthers == <<regex, test, nfa, dfa, nfaOut, dfaOut, pc, id, q, nextId,
               ldfa, nfaAtCall, deq, ret, am>>

\* input[i] of the code (0-based) is input[i + 1] here.
PdaAt(c) == pda.i < Len(pda.input) /\ pda.input[pda.i + 1] = c

\* One iteration of the push loop.
PdaPush ==
    /\ pda.pc = "push"
    /\ PdaAt(chA)
    /\ pda' = [pda EXCEPT !.st = Append(@, chMarker), !.i = @ + 1]
    /\ UNCHANGED PdaOthers

\* The push loop's condition fails.
PdaPushEnd ==
    /\ pda.pc = "push"
    /\ ~PdaAt(chA)
    /\ pda' = [pda EXCEPT !.pc = "pop"]
    /\ UNCHANGED PdaOthers

\* Variant: no "if (st.empty()) return false;" before the pop.
PdaPopUnchecked ==
    /\ pda.pc = "pop"
    /\ PdaAt(chB)
    /\ pda' = [pda EXCEPT !.st = SubSeq(@, 1, Len(@) - 1), !.i = @ + 1]
    /\ UNCHANGED PdaOthers

\* One iteration of the pop loop with a marker to pop.
PdaPop ==
    /\ pda.pc = "pop"
    /\ PdaAt(chB)
    /\ pda.st # <<>>
    /\ pda' = [pda EXCEPT !.st = SubSeq(@, 1, Len(@) - 1), !.i = @ + 1]
    /\ UNCHANGED PdaOthers

\* "if (st.empty()) return false;"
PdaUnderflow ==
    /\ pda.pc = "pop"
    /\ PdaAt(chB)
    /\ pda.st = <<>>
    /\ pda' = [pda EXCEPT !.pc = "done", !.result = FALSE]
    /\ UNCHANGED PdaOthers

\* Variant: the stack is not looked at, "return i == input.size();"
PdaReturnAnyStack ==
    /\ pda.pc = "pop"
    /\ ~PdaAt(chB)
    /\ pda' = [pda EXCEPT !.pc = "done", !.result = (pda.i = Len(pda.input))]
    /\ UNCHANGED PdaOthers

\* The pop loop's condition fails: "return i == input.size() && st.empty();"
PdaReturn ==
    /\ pda.pc = "pop"
    /\ ~PdaAt(chB)
    /\ pda' = [pda EXCEPT !.pc = "done",
                          !.result = (pda.i = Len(pda.input) /\ pda.st = <<>>)]
    /\ UNCHANGED PdaOthers

PdaNext == PdaPush \/ PdaPushEnd \/ PdaPop \/ PdaUnderflow \/ PdaReturn

PdaSpec == PdaInit /\ [][PdaNext]_vars

(***************************************************************************)
(* Reference notions the properties are stated with.                       *)
(***************************************************************************)
\* The chain automaton of a literal pattern P.
ChainNFA(P) ==
    [states |-> 0..Len(P),
     alphabet |-> {P[k] : k \in 1..Len(P)},
     transitions |-> [i \in 0..(Len(P) - 1) |-> (P[i + 1] :> {i + 1})],
     startState |-> 0,
     finalStates |-> {Len(P)}]

\* The string holds a symbol that is not in the automaton's alphabet.
HasForeignSymbol(s, alphabet) == \E k \in 1..Len(s) : s[k] \notin alphabet

\* The Levenshtein distance of x and y, row by row: row[j] is the distance
\* of the prefix of x read so far and the first j symbols of y.
RECURSIVE LevRow(_, _, _, _, _)
LevRow(row, prev, xc, y, j) ==
    IF j > Len(y)
    THEN row
    ELSE LET sub == prev[j - 1] + (IF xc = y[j] THEN 0 ELSE 1)
             v == Min({prev[j] + 1, row[j - 1] + 1, sub})
         IN LevRow([row EXCEPT ![j] = v], prev, xc, y, j + 1)

RECURSIVE LevFrom(_, _, _, _)
LevFrom(prev, x, y, i) ==
    IF i > Len(x)
    THEN prev[Len(y)]
    ELSE LET row0 == [j \in 0..Len(y) |-> IF j = 0 THEN prev[0] + 1 ELSE 0]
         IN LevFrom(LevRow(row0, prev, x[i], y, 1), x, y, i + 1)

EditDistance(x, y) == LevFrom([j \in 0..Len(y) |-> j], x, y, 1)

\* The contiguous substrings of text, the empty one included.
Substrings(text) ==
    {SubSeq(text, lo, hi) : lo \in 1..(Len(text) + 1), hi \in 0..Len(text)}

\* pattern occurs in text with at most k edits.
OccursWithin(text, pattern, k) ==
    \E w \in Substrings(text) : EditDistance(w, pattern) <= k

\* pattern is a contiguous substring of text.
IsSubstring(pattern, text) ==
    \E lo \in 0..(Len(text) - Len(pattern)) :
        SubSeq(text, lo + 1, lo + Len(pattern)) = pattern

\* s is n copies of 'a' followed by n copies of 'b'.
IsAnBn(s) ==
    \E n \in 0..Len(s) :
        /\ Len(s) = 2 * n
        /\ \A k \in 1..n : s[k] = chA
        /\ \A k \in (n + 1)..(2 * n) : s[k] = chB

(***************************************************************************)
(* The properties.                                                         *)
(***************************************************************************)
\* C1: for every literal pattern and every input string, nfa.simulate and
\* dfa.simulate (on the DFA nfaToDFA made of that NFA) return the same value.
Thm_C1 ==
    (nfaOut.called /\ dfaOut.called) => (nfaOut.result = dfaOut.result)

Wit_C1 ==
    /\ nfaOut.called /\ dfaOut.called
    /\ nfaOut.result /\ dfaOut.result
    /\ Len(regex) = 2

\* C2: approximateMatch returns true exactly when some contiguous substring
\* of text (the empty one included, ending anywhere) is within maxErrors
\* edits of pattern.
Cex_C2 ==
    am.pc = "done" =>
        (am.result <=> OccursWithin(am.text, am.pattern, am.maxErrors))

\* C3: PDA::simulate returns true exactly for the strings a^n b^n, n >= 0.
Thm_C3 == pda.pc = "done" => (pda.result <=> IsAnBn(pda.input))

Wit_C3 ==
    /\ pda.pc = "done"
    /\ pda.result
    /\ pda.input = <<chA, chA, chB, chB>>

\* C4: nfa.simulate on regexToNFA(P) returns true exactly when the input
\* equals P.
Thm_C4 == nfaOut.called => (nfaOut.result <=> test = regex)

Wit_C4 ==
    /\ nfaOut.called
    /\ ~nfaOut.result
    /\ regex = <<chA, chB>>
    /\ test = <<chA, chB, 99>>

Thm_C6 ==
    ret # <<>> =>
        /\ Cardinality(ret[Len(ret)].states) = Cardinality(nfa.states)
        /\ Cardinality(ret[Len(ret)].states) = Len(regex) + 1

Wit_C6 == ret # <<>> /\ Len(regex) = 2 /\ Cardinality(ret[Len(ret)].states) = 3

\* C7: two successive nfaToDFA calls on the same NFA object return DFAs
\* with the same states, alphabet, transitions, start state and finals.
Thm_C7 == Len(ret) = 2 => ret[1] = ret[2]

Wit_C7 ==
    /\ Len(ret) = 2
    /\ Len(regex) = 2
    /\ DOMAIN ret[2].transitions = {0, 1}
    /\ nfa # ChainNFA(regex)

\* C8: with maxErrors = 0, approximateMatch returns true exactly when
\* pattern is a contiguous substring of text.
Thm_C8 ==
    (am.pc = "done" /\ am.maxErrors = 0) =>
        (am.result <=> IsSubstring(am.pattern, am.text))

Wit_C8 ==
    /\ am.pc = "done" /\ am.maxErrors = 0
    /\ am.result
    /\ Len(am.pattern) = 2
    /\ Len(am.text) = 3
    /\ SubSeq(am.text, 1, 2) # am.pattern

\* C9: an input that holds a symbol outside the automaton's alphabet is
\* rejected by nfa.simulate and by dfa.simulate.
Thm_C9 ==
    HasForeignSymbol(test, nfa.alphabet) =>
        /\ nfaOut.called => ~nfaOut.result
        /\ dfaOut.called => ~dfaOut.result

Wit_C9 ==
    /\ nfaOut.called /\ dfaOut.called
    /\ Len(regex) = 2
    /\ Len(test) = 3
    /\ SubSeq(test, 1, 2) = regex
    /\ test[3] \notin nfa.alphabet

\* C10: when nfaToDFA is about to return, every field of the NFA is what it
\* was when the call was entered.
Cex_C10 == (pc = "loop" /\ q = <<>>) => nfa = nfaAtCall

\* C11: a simulate call leaves its automaton as it was: nfa.simulate leaves
\* every field of the NFA unchanged, dfa.simulate every field of the DFA,
\* the set of source states of the transition map included.
Cex_C11 ==
    [][/\ CallNfaSimulate => nfa' = nfa
       /\ CallDfaSimulate => dfa' = dfa]_vars

\* The union of the targets of the states of S on c.
Move(n, S, c) ==
    UNION {n.transitions[s][c] :
              s \in {x \in S \cap DOMAIN n.transitions : c \in DOMAIN n.transitions[x]}}

\* The subsets the current nfaToDFA call has enqueued, in order: those it
\* has dequeued, then those still in the queue.
Enqueued == deq \o q

Range(f) == {f[x] : x \in DOMAIN f}

\* C12: at every step of the worklist loop of nfaToDFA, for any NFA, the
\* subset-to-id map is injective, its ids are exactly 0..nextId-1 and the
\* start subset has id 0; the subsets with an id are exactly the subsets
\* enqueued, each enqueued once; and every transition recorded leads to the
\* id the map holds for the union of the targets.
Thm_C12 ==
    pc = "loop" =>
        /\ \A S, T \in DOMAIN id : id[S] = id[T] => S = T
        /\ Range(id) = 0..(nextId - 1)
        /\ {nfa.startState} \in DOMAIN id /\ id[{nfa.startState}] = 0
        /\ \A i, j \in 1..Len(Enqueued) : Enqueued[i] = Enqueued[j] => i = j
        /\ Range(Enqueued) = DOMAIN id
        /\ \A d \in DOMAIN ldfa.transitions : \A c \in DOMAIN ldfa.transitions[d] :
              \E S \in DOMAIN id :
                  /\ id[S] = d
                  /\ Move(nfa, S, c) \in DOMAIN id
                  /\ ldfa.transitions[d][c] = id[Move(nfa, S, c)]

\* A subset is found again (a transition leads to an id not larger than its
\* source's), and a subset of two NFA states has an id.
Wit_C12 ==
    /\ pc = "loop"
    /\ \E d \in DOMAIN ldfa.transitions : \E c \in DOMAIN ldfa.transitions[d] :
          ldfa.transitions[d][c] <= d
    /\ \E S \in DOMAIN id : Cardinality(S) = 2

\* The least edit distance of the first j symbols of pattern and a substring
\* of text that ends at position i.
BestEndingAt(text, pattern, i, j) ==
    Min({EditDistance(SubSeq(text, k + 1, i), SubSeq(pattern, 1, j)) : k \in 0..i})

\* C13: once approximateMatch has filled its table, dp[i][j] is the least
\* edit distance of pattern[0..j) and a substring text[k..i), 0 <= k <= i,
\* for every i and j (so dp[0][j] = j and dp[i][0] = 0).
Thm_C13 ==
    am.pc \in {"scan", "done"} =>
        \A i \in 0..Len(am.text) : \A j \in 0..Len(am.pattern) :
            am.dp[i][j] = BestEndingAt(am.text, am.pattern, i, j)

\* A filled table where the last symbols of text and pattern are equal, the
\* cell before them on the diagonal is not 0, and the text is longer than
\* the pattern.
Wit_C13 ==
    /\ am.pc = "scan"
    /\ Len(am.pattern) = 2
    /\ Len(am.text) = 3
    /\ am.text[3] = am.pattern[2]
    /\ am.dp[2][1] = 1
    /\ am.dp[3][2] = 1

\* C14: approximateMatch returns true exactly when some row i with
\* |pattern| <= i <= |text| has dp[i][|pattern|] <= maxErrors; hence it
\* returns false whenever the text is shorter than the pattern, and whenever
\* maxErrors is negative.
Thm_C14 ==
    am.pc = "done" =>
        /\ am.result <=>
              \E i \in 0..Len(am.text) :
                  /\ i >= Len(am.pattern)
                  /\ am.dp[i][Len(am.pattern)] <= am.maxErrors
        /\ Len(am.text) < Len(am.pattern) => ~am.result
        /\ am.maxErrors < 0 => ~am.result

\* A text shorter than the pattern, and a budget that covers the whole
\* pattern.
Wit_C14 ==
    /\ am.pc = "done"
    /\ Len(am.text) = 1
    /\ Len(am.pattern) = 2
    /\ am.maxErrors = 2
    /\ am.dp[1][2] <= 2
    /\ ~am.result

\* 2^n
RECURSIVE Pow2(_)
Pow2(n) == IF n = 0 THEN 1 ELSE 2 * Pow2(n - 1)

\* The iterations the worklist loop of nfaToDFA still has to run, at most:
\* the subsets in the queue, and the nonempty subsets of nfa.states that
\* have no id yet.
Remaining == Len(q) + (Pow2(Cardinality(nfa.states)) - 1 - Cardinality(DOMAIN id))

\* C15: nfaToDFA terminates on every NFA: only nonempty subsets of
\* nfa.states are enqueued, each once, a subset dequeued is not dequeued
\* again, the subsets dequeued are at most 2^|nfa.states| - 1, and every
\* iteration of the loop lowers by one the count (never negative) of the
\* iterations that may still come, so that the queue becomes empty.
Thm_C15 ==
    /\ [](pc = "loop" =>
            /\ Len(deq) <= Pow2(Cardinality(nfa.states)) - 1
            /\ \A i, j \in 1..Len(deq) : deq[i] = deq[j] => i = j
            /\ \A S \in Range(Enqueued) : S # {} /\ S \subseteq nfa.states
            /\ Remaining >= 0
            /\ Remaining = 0 => q = <<>>)
    /\ [][ConvStep => Remaining' = Remaining - 1]_vars

\* A call on an NFA with a cycle that has dequeued every nonempty subset of
\* the NFA's states and has returned.
Wit_C15 ==
    /\ pc = "main"
    /\ ret # <<>>
    /\ Cardinality(nfa.states) = 2
    /\ Len(deq) = 3
    /\ \E s \in DOMAIN nfa.transitions : \E c \in DOMAIN nfa.transitions[s] :
          s \in nfa.transitions[s][c]

\* The DFA the last nfaToDFA call returned.
Returned == ret[Len(ret)]

HasTransition(D, d, c) == d \in DOMAIN D.transitions /\ c \in DOMAIN D.transitions[d]

\* C16: in the DFA nfaToDFA returns, for any NFA, the id d of a discovered
\* subset S is final exactly when S holds a final state of the NFA, and for
\* every symbol c of the alphabet there is a transition (d, c) exactly when
\* the union of the targets of S on c is not empty, and it leads to the id
\* of that union; the empty subset has no id (there is no sink state).
Thm_C16 ==
    (pc = "main" /\ ret # <<>>) =>
        /\ {} \notin DOMAIN id
        /\ \A S \in DOMAIN id :
              /\ id[S] \in Returned.finalStates <=> S \cap nfa.finalStates # {}
              /\ \A c \in Returned.alphabet :
                    /\ HasTransition(Returned, id[S], c) <=> Move(nfa, S, c) # {}
                    /\ HasTransition(Returned, id[S], c) =>
                          /\ Move(nfa, S, c) \in DOMAIN id
                          /\ Returned.transitions[id[S]][c] = id[Move(nfa, S, c)]

\* A returned DFA with a subset of two NFA states, one final and one not,
\* and with a state that has no transition on a symbol of the alphabet.
Wit_C16 ==
    /\ pc = "main" /\ ret # <<>>
    /\ \E S \in DOMAIN id :
          /\ Cardinality(S) = 2
          /\ Cardinality(S \cap nfa.finalStates) = 1
          /\ id[S] \in Returned.finalStates
    /\ \E S \in DOMAIN id : \E c \in Returned.alphabet :
          /\ Move(nfa, S, c) = {}
          /\ ~HasTransition(Returned, id[S], c)

\* The well-formedness of an NFA.
WellFormedNFA(n) ==
    /\ n.startState \in n.states
    /\ n.finalStates \subseteq n.states
    /\ DOMAIN n.transitions \subseteq n.states
    /\ \A s \in DOMAIN n.transitions : \A c \in DOMAIN n.transitions[s] :
          /\ n.transitions[s][c] \subseteq n.states
          /\ n.transitions[s][c] # {} => c \in n.alphabet

\* C17: the NFA regexToNFA returns is well formed, and stays so through
\* every sequence of nfa.simulate and nfaToDFA calls on it: the start state
\* and the final states are in states, every source and every target of the
\* transition map is in states, and every symbol with a target is in
\* alphabet.
Thm_C17 == WellFormedNFA(nfa)

\* The NFA of a two-symbol pattern after a simulate call and two nfaToDFA
\* calls, with the entry those calls created for the final state.
Wit_C17 ==
    /\ Len(regex) = 2
    /\ nfaOut.called
    /\ Len(ret) = 2
    /\ pc = "main"
    /\ DOMAIN nfa.transitions = {0, 1, 2}

\* How many of the first i symbols of s are c.
Occurrences(s, i, c) == Cardinality({k \in 1..i : s[k] = c})

\* C18: at every step of PDA::simulate the stack depth is the number of
\* 'a' consumed minus the number of 'b' consumed and is not negative; a
\* pop finds a marker on the stack; a push happens only while no pop has
\* happened; the scan index never decreases, grows by one with every push
\* and pop and never passes |input|, so that the call ends after at most
\* |input| loop iterations; and a call that has not returned can take a step.
Thm_C18 ==
    /\ [](pda.pc \in {"push", "pop", "done"} =>
            /\ pda.i \in 0..Len(pda.input)
            /\ Len(pda.st) = Occurrences(pda.input, pda.i, chA)
                                 - Occurrences(pda.input, pda.i, chB)
            /\ Len(pda.st) >= 0
            /\ pda.pc = "push" => Len(pda.st) = pda.i
            /\ pda.pc \in {"push", "pop"} => ENABLED PdaNext)
    /\ [][/\ pda'.i >= pda.i
          /\ Len(pda'.st) # Len(pda.st) => pda'.i = pda.i + 1
          /\ (pda.pc = "pop" /\ pda'.i > pda.i) =>
                (pda.st # <<>> /\ Len(pda'.st) = Len(pda.st) - 1)
          /\ Len(pda'.st) > Len(pda.st) =>
                (pda.pc = "push" /\ Len(pda.st) = pda.i)]_vars

\* In the middle of "aabb": two pushes and one pop done.
Wit_C18 ==
    /\ pda.pc = "pop"
    /\ pda.input = <<chA, chA, chB, chB>>
    /\ pda.i = 3
    /\ Len(pda.st) = 1

\* The states a DFA's transitions lead to.
Targets(D) ==
    UNION {{D.transitions[d][c] : c \in DOMAIN D.transitions[d]} :
              d \in DOMAIN D.transitions}

\* C19: the DFA nfaToDFA returns, for any NFA, is closed and densely
\* numbered: its states are 0..k-1 for the k subsets discovered, its start
\* state 0 is one of them, every source and every target of a transition is
\* a state, every transition symbol is in the alphabet, and the final
\* states are states.
Thm_C19 ==
    (pc = "main" /\ ret # <<>>) =>
        /\ Returned.states = 0..(Cardinality(DOMAIN id) - 1)
        /\ Returned.startState = 0
        /\ Returned.startState \in Returned.states
        /\ DOMAIN Returned.transitions \subseteq Returned.states
        /\ Targets(Returned) \subseteq Returned.states
        /\ \A d \in DOMAIN Returned.transitions :
              DOMAIN Returned.transitions[d] \subseteq Returned.alphabet
        /\ Returned.finalStates \subseteq Returned.states

\* A returned DFA of three states, with a transition back to a state
\* numbered before its source.
Wit_C19 ==
    /\ pc = "main" /\ ret # <<>>
    /\ Returned.states = {0, 1, 2}
    /\ \E d \in DOMAIN Returned.transitions : \E c \in DOMAIN Returned.transitions[d] :
          Returned.transitions[d][c] < d

\* During the loop a transition may lead to a state that is not in
\* dfa.states yet.
OpenDuringLoop == pc = "loop" /\ ~(Targets(ldfa) \subseteq ldfa.states)

====
